---- MODULE Spec2Model ----
(***************************************************************************)
(* Token-based session management of the user service                      *)
(* (Backend_folderStructure/app/user): loginUser, refreshToken, logout and *)
(* the user CRUD operations, run by concurrent requests that interleave at *)
(* their store calls.                                                      *)
(***************************************************************************)
EXTENDS Integers, Sequences, FiniteSets, TLC

\* media: the urls of the assets the media host holds (cloudinaryUploader.ts)
VARIABLES users, nextId, clock, handed, edits, pc, req, loaded, toks, result, media

vars == <<users, nextId, clock, handed, edits, pc, req, loaded, toks, result, media>>

(* ---------------------------------------------------------------- bounds *)
\* token pairs issued in one run
MaxIssue == 2
\* profile / administrative writes (create, update, edit, delete) in one run
MaxEdits == 1
Procs == {"p1", "p2"}
\* the ids the store hands out, in this order
Ids == {1, 2, 3}
\* the users that requests name: a seeded user, and the first user created
\* later (absent until then); user 2 is the bystander record
TargetIds == {1, 3}
\* the user whose profile is read, edited and updated
ProfileIds == {1}
\* login attempts: the right and a wrong password for user 1, and an email
\* that belongs to nobody until user 3 is created
LoginInputs == {[email |-> "e1", password |-> "p1"], [email |-> "e1", password |-> "p2"],
                [email |-> "e3", password |-> "p1"]}
\* the salt bcrypt draws for a new hash (the seeded hashes used "s1")
Salts == {"s2"}

\* null / undefined, and the empty local of a request
Null == <<>>

(* ------------------------------------------------------------- libraries *)
\* bcrypt.hash(password, 12): a salted one-way hash
BcryptHash(pw, salt) == [alg |-> "bcrypt", cost |-> 12, salt |-> salt, of |-> pw]

\* bcrypt.compare(password, hashed)
BcryptCompare(pw, hashed) == hashed.of = pw

\* const { password, refreshToken, ...rest } = obj : the own enumerable
\* properties of obj other than the named ones
Omit(obj, keys) == [k \in DOMAIN obj \ keys |-> obj[k]]

\* a hydrated (non-lean) Mongoose document: the stored fields live under
\* _doc and are reached through prototype getters; the document's own
\* enumerable properties are $__, $isNew and _doc
MongooseDocument(raw) == ("$__" :> "InternalCache") @@ ("$isNew" :> FALSE) @@ ("_doc" :> raw)

\* createUserAccessTokens(claims): a signed access / refresh pair encoding the
\* claim set and the issued-at instant; distinct issuances have distinct
\* issued-at instants
createUserAccessTokens(claims, now) ==
    [accessToken  |-> [kind |-> "access",  sig |-> "valid", exp |-> "future", iat |-> now, claims |-> claims],
     refreshToken |-> [kind |-> "refresh", sig |-> "valid", exp |-> "future", iat |-> now, claims |-> claims]]

\* tokens a client can present that jwt.verify rejects: a forged signature,
\* and a correctly signed token whose expiry has passed
ForgedToken(id) == [kind |-> "refresh", sig |-> "forged", exp |-> "future", iat |-> 0, claims |-> [_id |-> id]]
ExpiredToken(id) == [kind |-> "refresh", sig |-> "valid", exp |-> "past", iat |-> 0, claims |-> [_id |-> id]]
\* a correctly signed, unexpired token that carries no _id claim
AnonymousToken == [kind |-> "refresh", sig |-> "valid", exp |-> "future", iat |-> 0, claims |-> [role |-> "USER"]]

RejectedTokens == {ForgedToken(1), ExpiredToken(1), AnonymousToken}

\* jwt.verify(token, secret): throws unless the signature verifies and the
\* token is unexpired
JwtVerify(tok) == tok.sig = "valid" /\ tok.exp = "future"

JWT_SECRET == "secret"

(* ----------------------------------------------------------------- store *)
\* the email filter is dropped: the query matches every document
FindOne_AnyUser(store, email) == DOMAIN store

\* UserSchema.findOne({ email }).lean()
FindOne(store, email) == {id \in DOMAIN store : store[id].email = email}

\* the update run with { upsert: true }: a missing id gets a new document
FindByIdAndUpdate_Upsert(store, id, patch) ==
    IF id \in DOMAIN store
    THEN [store EXCEPT ![id] = patch @@ store[id]]
    ELSE (id :> (patch @@ [_id |-> id, name |-> "", email |-> "", active |-> TRUE, role |-> "USER",
                           password |-> Null, refreshToken |-> Null, imageUrl |-> ""])) @@ store

\* the update applied with an empty filter: every document is patched
FindByIdAndUpdate_UpdateMany(store, id, patch) ==
    [i \in DOMAIN store |-> patch @@ store[i]]

\* UserSchema.findByIdAndUpdate(id, patch): sets the patched fields of the
\* document with that id; no document is created when none matches
FindByIdAndUpdate(store, id, patch) ==
    IF id \in DOMAIN store
    THEN [store EXCEPT ![id] = patch @@ store[id]]
    ELSE store

SeedUser(id, name, email, pw, role) ==
    [_id |-> id, name |-> name, email |-> email, active |-> TRUE, role |-> role,
     password |-> BcryptHash(pw, "s1"), refreshToken |-> Null, imageUrl |-> ""]

Ok(val) == [ok |-> TRUE, val |-> val]
Err(msg) == [ok |-> FALSE, err |-> msg]

Init ==
    /\ users = (1 :> SeedUser(1, "n1", "e1", "p1", "USER")) @@ (2 :> SeedUser(2, "n2", "e2", "p2", "ADMIN"))
    /\ nextId = 3
    /\ clock = 1
    /\ handed = {}
    /\ edits = 0
    /\ pc = [p \in Procs |-> "idle"]
    /\ req = [p \in Procs |-> Null]
    /\ loaded = [p \in Procs |-> Null]
    /\ toks = [p \in Procs |-> Null]
    /\ result = [p \in Procs |-> Null]
    /\ media = {}

Finish(p, r, res) ==
    /\ pc' = [pc EXCEPT ![p] = "done"]
    /\ req' = [req EXCEPT ![p] = r]
    /\ result' = [result EXCEPT ![p] = res]
    /\ loaded' = [loaded EXCEPT ![p] = Null]
    /\ toks' = [toks EXCEPT ![p] = Null]

(* --------------------------------------------------------------- session *)
\* only the password is taken out of the claim set
UserWithoutPassword_KeepsRefreshToken(user) == Omit(user, {"password"})

\* const { password, refreshToken, ...userWithoutPassword } = user
UserWithoutPassword(user) == Omit(user, {"password", "refreshToken"})

\* loginUser up to the store write: getUserByEmail, strip, issue
LoginFind(p, email, password) ==
    /\ pc[p] = "idle"
    /\ LET r == [op |-> "login", email |-> email, password |-> password]
           found == FindOne(users, email)
       IN IF found # {}
          THEN LET user == users[CHOOSE id \in found : TRUE]
                   userWithoutPassword == UserWithoutPassword(user)
               IN /\ clock <= MaxIssue
                  /\ pc' = [pc EXCEPT ![p] = "login_update"]
                  /\ req' = [req EXCEPT ![p] = r]
                  /\ loaded' = [loaded EXCEPT ![p] = user]
                  /\ toks' = [toks EXCEPT ![p] = createUserAccessTokens(userWithoutPassword, clock)]
                  /\ clock' = clock + 1
                  /\ UNCHANGED <<users, nextId, handed, edits, result>>
          ELSE /\ Finish(p, r, Err("User not found"))
               /\ UNCHANGED <<users, nextId, clock, handed, edits>>
    /\ UNCHANGED media

\* the access token is what gets persisted
LoginUpdate_StoresAccessToken(p) ==
    /\ pc[p] = "login_update"
    /\ users' = FindByIdAndUpdate(users, loaded[p]._id, [refreshToken |-> toks[p].accessToken])
    /\ handed' = handed \cup {toks[p].refreshToken}
    /\ Finish(p, req[p], Ok(toks[p]))
    /\ UNCHANGED <<nextId, clock, edits>>
    /\ UNCHANGED media

\* the write is applied only if the record still holds what was loaded
LoginUpdate_FirstWriterWins(p) ==
    /\ pc[p] = "login_update"
    /\ users' = IF loaded[p]._id \in DOMAIN users
                    /\ users[loaded[p]._id].refreshToken = loaded[p].refreshToken
                 THEN FindByIdAndUpdate(users, loaded[p]._id, [refreshToken |-> toks[p].refreshToken])
                 ELSE users
    /\ handed' = handed \cup {toks[p].refreshToken}
    /\ Finish(p, req[p], Ok(toks[p]))
    /\ UNCHANGED <<nextId, clock, edits>>
    /\ UNCHANGED media

\* loginUser: findByIdAndUpdate(user._id, { refreshToken }) and return tokens
LoginUpdate(p) ==
    /\ pc[p] = "login_update"
    /\ users' = FindByIdAndUpdate(users, loaded[p]._id, [refreshToken |-> toks[p].refreshToken])
    /\ handed' = handed \cup {toks[p].refreshToken}
    /\ Finish(p, req[p], Ok(toks[p]))
    /\ UNCHANGED <<nextId, clock, edits>>
    /\ UNCHANGED media

\* the presented token is not compared with the stored one
RefreshCheck_NoCompare(store, tok) ==
    IF JWT_SECRET = "" THEN "JWT_SECRET is not defined"
    ELSE IF ~JwtVerify(tok) THEN "JsonWebTokenError"
    ELSE IF "_id" \notin DOMAIN tok.claims THEN "Invalid refresh token"
    ELSE IF tok.claims._id \notin DOMAIN store THEN "User not found"
    ELSE "ok"

\* what refreshToken decides before it issues: the error it throws, or "ok"
RefreshCheck(store, tok) ==
    IF JWT_SECRET = "" THEN "JWT_SECRET is not defined"
    ELSE IF ~JwtVerify(tok) THEN "JsonWebTokenError"
    ELSE IF "_id" \notin DOMAIN tok.claims THEN "Invalid refresh token"
    ELSE IF tok.claims._id \notin DOMAIN store THEN "User not found"
    ELSE IF store[tok.claims._id].refreshToken # tok THEN "Invalid refresh token"
    ELSE "ok"

\* refreshToken up to the store write: verify, findById, compare, strip, issue
RefreshFind(p, tok) ==
    /\ pc[p] = "idle"
    /\ LET r == [op |-> "refresh", refreshtoken |-> tok]
           check == RefreshCheck(users, tok)
       IN IF check = "ok"
          THEN LET user == users[tok.claims._id]
                   userWithoutPassword == UserWithoutPassword(user)
               IN /\ clock <= MaxIssue
                  /\ pc' = [pc EXCEPT ![p] = "refresh_update"]
                  /\ req' = [req EXCEPT ![p] = r]
                  /\ loaded' = [loaded EXCEPT ![p] = user]
                  /\ toks' = [toks EXCEPT ![p] = createUserAccessTokens(userWithoutPassword, clock)]
                  /\ clock' = clock + 1
                  /\ UNCHANGED <<users, nextId, handed, edits, result>>
          ELSE /\ Finish(p, r, Err(check))
               /\ UNCHANGED <<users, nextId, clock, handed, edits>>
    /\ UNCHANGED media

\* a client presents a refresh token it was handed, or one jwt.verify rejects
Refresh(p) == \E tok \in handed \cup RejectedTokens : RefreshFind(p, tok)

\* the new pair is returned without being persisted
RefreshUpdate_NoPersist(p) ==
    /\ pc[p] = "refresh_update"
    /\ handed' = handed \cup {toks[p].refreshToken}
    /\ Finish(p, req[p], Ok(toks[p]))
    /\ UNCHANGED <<users, nextId, clock, edits>>
    /\ UNCHANGED media

\* refreshToken: findByIdAndUpdate(user._id, { refreshToken }) and return tokens
RefreshUpdate(p) ==
    /\ pc[p] = "refresh_update"
    /\ users' = FindByIdAndUpdate(users, loaded[p]._id, [refreshToken |-> toks[p].refreshToken])
    /\ handed' = handed \cup {toks[p].refreshToken}
    /\ Finish(p, req[p], Ok(toks[p]))
    /\ UNCHANGED <<nextId, clock, edits>>
    /\ UNCHANGED media

\* the request is answered without the store being written
Logout_KeepsToken(p, id) ==
    /\ pc[p] = "idle"
    /\ Finish(p, [op |-> "logout", _id |-> id], Ok(Null))
    /\ UNCHANGED <<users, nextId, clock, handed, edits>>
    /\ UNCHANGED media

\* a marker of the logout is written in place of null
Logout_WritesMarker(p, id) ==
    /\ pc[p] = "idle"
    /\ users' = FindByIdAndUpdate(users, id, [refreshToken |-> [kind |-> "revoked", by |-> p]])
    /\ Finish(p, [op |-> "logout", _id |-> id], Ok(Null))
    /\ UNCHANGED <<nextId, clock, handed, edits>>
    /\ UNCHANGED media

\* logout: findByIdAndUpdate(data._id, { refreshToken: null })
Logout(p, id) ==
    /\ pc[p] = "idle"
    /\ users' = FindByIdAndUpdate(users, id, [refreshToken |-> Null])
    /\ Finish(p, [op |-> "logout", _id |-> id], Ok(Null))
    /\ UNCHANGED <<nextId, clock, handed, edits>>
    /\ UNCHANGED media

(* ------------------------------------------------------------------ CRUD *)
\* the filter every lean read applies before it returns a document
Strip(doc) == Omit(doc, {"password", "refreshToken"})

\* the unique index on email: a write that would give two documents the same
\* email is rejected
EmailTaken(store, email, except) ==
    \E id \in DOMAIN store \ except : store[id].email = email

\* IUser bodies; refreshToken is an optional field of IUser, and the last
\* body carries one
CreateInputs ==
    {[name |-> "n3", email |-> e, password |-> "p1", role |-> "USER"] : e \in {"e1", "e3"}}
    \cup {[name |-> "n3", email |-> "e3", password |-> "p1", role |-> "USER",
           refreshToken |-> ForgedToken(3)]}

UpdateInputs == {[name |-> "n1", email |-> "e1", password |-> "p2", role |-> "USER"]}

\* Partial<IUser> bodies, one of them naming the refreshToken field
EditInputs == {[name |-> "n9"], [role |-> "ADMIN", active |-> FALSE], [refreshToken |-> Null]}

\* createUser: UserSchema.create({ ...data, active: data?.active ?? true }),
\* then the rest-destructuring of the hydrated document it returns
createUser(p, data, salt) ==
    /\ pc[p] = "idle"
    /\ edits < MaxEdits
    /\ nextId \in Ids
    /\ edits' = edits + 1
    /\ LET r == [op |-> "createUser", data |-> data]
           raw == [_id |-> nextId, name |-> data.name, email |-> data.email,
                   active |-> IF "active" \in DOMAIN data THEN data.active ELSE TRUE,
                   role |-> data.role, password |-> BcryptHash(data.password, salt),
                   refreshToken |-> IF "refreshToken" \in DOMAIN data THEN data.refreshToken ELSE Null,
                   imageUrl |-> ""]
       IN IF EmailTaken(users, data.email, {})
          THEN /\ Finish(p, r, Err("E11000 duplicate key"))
               /\ UNCHANGED <<users, nextId>>
          ELSE /\ users' = (nextId :> raw) @@ users
               /\ nextId' = nextId + 1
               /\ Finish(p, r, Ok(Omit(MongooseDocument(raw), {"password", "refreshToken"})))
    /\ UNCHANGED <<clock, handed>>
    /\ UNCHANGED media

\* updateUser: bcrypt.hash the password, findOneAndUpdate with { new: true }
updateUser(p, id, data, salt) ==
    /\ pc[p] = "idle"
    /\ edits < MaxEdits
    /\ edits' = edits + 1
    /\ LET r == [op |-> "updateUser", _id |-> id, data |-> data]
           userWithoutPassword == Omit(data, {"password"})
           hashPassword == BcryptHash(data.password, salt)
           after == FindByIdAndUpdate(users, id, [password |-> hashPassword] @@ userWithoutPassword)
       IN IF id \in DOMAIN users /\ EmailTaken(users, data.email, {id})
          THEN /\ Finish(p, r, Err("E11000 duplicate key"))
               /\ UNCHANGED users
          ELSE /\ users' = after
               /\ Finish(p, r, Ok(IF id \in DOMAIN after THEN Strip(after[id]) ELSE Null))
    /\ UNCHANGED <<nextId, clock, handed>>
    /\ UNCHANGED media

\* editUser: findOneAndUpdate({ _id: id }, data) without { new: true }
editUser(p, id, data) ==
    /\ pc[p] = "idle"
    /\ edits < MaxEdits
    /\ edits' = edits + 1
    /\ users' = FindByIdAndUpdate(users, id, data)
    /\ Finish(p, [op |-> "editUser", _id |-> id, data |-> data],
              Ok(IF id \in DOMAIN users THEN Strip(users[id]) ELSE Null))
    /\ UNCHANGED <<nextId, clock, handed>>
    /\ UNCHANGED media

\* deleteUser: UserSchema.deleteOne({ _id: id })
deleteUser(p, id) ==
    /\ pc[p] = "idle"
    /\ edits < MaxEdits
    /\ edits' = edits + 1
    /\ users' = [i \in DOMAIN users \ {id} |-> users[i]]
    /\ Finish(p, [op |-> "deleteUser", _id |-> id],
              Ok([deletedCount |-> IF id \in DOMAIN users THEN 1 ELSE 0]))
    /\ UNCHANGED <<nextId, clock, handed>>
    /\ UNCHANGED media

\* getUserById: findById(id).lean(), stripped
getUserById(p, id) ==
    /\ pc[p] = "idle"
    /\ Finish(p, [op |-> "getUserById", _id |-> id],
              Ok(IF id \in DOMAIN users THEN Strip(users[id]) ELSE Null))
    /\ UNCHANGED <<users, nextId, clock, handed, edits>>
    /\ UNCHANGED media

\* getAllUser: find({}).select("-password -refreshToken").lean()
getAllUser(p) ==
    /\ pc[p] = "idle"
    /\ Finish(p, [op |-> "getAllUser"],
              Ok({Omit(users[id], {"password", "refreshToken"}) : id \in DOMAIN users}))
    /\ UNCHANGED <<users, nextId, clock, handed, edits>>
    /\ UNCHANGED media

\* getMe: findById(user._id).lean(), stripped
getMe(p, id) ==
    /\ pc[p] = "idle"
    /\ Finish(p, [op |-> "getMe", _id |-> id],
              Ok(IF id \in DOMAIN users THEN Strip(users[id]) ELSE Null))
    /\ UNCHANGED <<users, nextId, clock, handed, edits>>
    /\ UNCHANGED media

\* uploadToCloudinary(file, folder, 1000, 1000): the upload's secure_url, or
\* the error it rethrows; cloud is the media host's answer
uploadToCloudinary(file, folder, cloud) ==
    IF file.tempFilePath = "" THEN Err("Error: Invalid file path")
    ELSE IF cloud = "ok" THEN Ok([secure_url |-> "https://media/" \o folder])
    ELSE Err("Error: upload failed")

UploadInputs ==
    {[user |-> Null, files |-> [file |-> [tempFilePath |-> "/tmp/a"]]],
     [user |-> [_id |-> 1], files |-> Null],
     [user |-> [_id |-> 1], files |-> [file |-> [tempFilePath |-> ""]]],
     [user |-> [_id |-> 1], files |-> [file |-> [tempFilePath |-> "/tmp/a"]]]}

\* the file is sent to the media host before the two guards are looked at
uploadImage_UploadFirst(p, user, files, cloud) ==
    /\ pc[p] = "idle"
    /\ edits < MaxEdits
    /\ LET r == [op |-> "uploadImage", user |-> user, files |-> files]
       IN IF user = Null
          THEN /\ Finish(p, r, Err("401 unauthorised"))
               /\ media' = media \cup {uploadToCloudinary(files.file, "avatar", "ok").val.secure_url}
               /\ UNCHANGED edits
          ELSE IF files = Null \/ "file" \notin DOMAIN files
          THEN /\ Finish(p, r, Err("400 No file uploaded"))
               /\ UNCHANGED <<edits, media>>
          ELSE LET up == uploadToCloudinary(files.file, "avatar", cloud)
               IN IF up.ok
                  THEN /\ pc' = [pc EXCEPT ![p] = "upload_update"]
                       /\ req' = [req EXCEPT ![p] = r]
                       /\ loaded' = [loaded EXCEPT ![p] = [_id |-> user._id, mediaUrl |-> up.val.secure_url]]
                       /\ edits' = edits + 1
                       /\ media' = media \cup {up.val.secure_url}
                       /\ UNCHANGED <<toks, result>>
                  ELSE /\ Finish(p, r, up)
                       /\ UNCHANGED <<edits, media>>
    /\ UNCHANGED <<users, nextId, clock, handed>>

\* uploadImage up to the store write: the two guards and the upload
uploadImage(p, user, files, cloud) ==
    /\ pc[p] = "idle"
    /\ edits < MaxEdits
    /\ LET r == [op |-> "uploadImage", user |-> user, files |-> files]
       IN IF user = Null
          THEN /\ Finish(p, r, Err("401 unauthorised"))
               /\ UNCHANGED <<edits, media>>
          ELSE IF files = Null \/ "file" \notin DOMAIN files
          THEN /\ Finish(p, r, Err("400 No file uploaded"))
               /\ UNCHANGED <<edits, media>>
          ELSE LET up == uploadToCloudinary(files.file, "avatar", cloud)
               IN IF up.ok
                  THEN /\ pc' = [pc EXCEPT ![p] = "upload_update"]
                       /\ req' = [req EXCEPT ![p] = r]
                       /\ loaded' = [loaded EXCEPT ![p] = [_id |-> user._id, mediaUrl |-> up.val.secure_url]]
                       /\ edits' = edits + 1
                       /\ media' = media \cup {up.val.secure_url}
                       /\ UNCHANGED <<toks, result>>
                  ELSE /\ Finish(p, r, up)
                       /\ UNCHANGED <<edits, media>>
    /\ UNCHANGED <<users, nextId, clock, handed>>

\* uploadImage: findByIdAndUpdate(user._id, { imageUrl }, { new: true }).lean()
UploadUpdate(p) ==
    /\ pc[p] = "upload_update"
    /\ LET id == loaded[p]._id
           after == FindByIdAndUpdate(users, id, [imageUrl |-> loaded[p].mediaUrl])
       IN /\ users' = after
          /\ Finish(p, req[p], Ok(IF id \in DOMAIN after THEN Strip(after[id]) ELSE Null))
    /\ UNCHANGED <<nextId, clock, handed, edits>>
    /\ UNCHANGED media

\* the response has been sent; the request is over
Ack(p) ==
    /\ pc[p] = "done"
    /\ pc' = [pc EXCEPT ![p] = "idle"]
    /\ req' = [req EXCEPT ![p] = Null]
    /\ result' = [result EXCEPT ![p] = Null]
    /\ UNCHANGED <<users, nextId, clock, handed, edits, loaded, toks>>
    /\ UNCHANGED media

(* ---------------------------------------------------------- specification *)
Step(p) ==
    \/ \E d \in LoginInputs : LoginFind(p, d.email, d.password)
    \/ LoginUpdate(p)
    \/ Refresh(p)
    \/ RefreshUpdate(p)
    \/ \E id \in TargetIds : Logout(p, id)
    \/ \E data \in CreateInputs, salt \in Salts : createUser(p, data, salt)
    \/ \E id \in ProfileIds, data \in UpdateInputs, salt \in Salts : updateUser(p, id, data, salt)
    \/ \E id \in ProfileIds, data \in EditInputs : editUser(p, id, data)
    \/ \E id \in TargetIds : deleteUser(p, id)
    \/ \E id \in ProfileIds : getUserById(p, id)
    \/ getAllUser(p)
    \/ \E id \in ProfileIds : getMe(p, id)
    \/ \E d \in UploadInputs, cloud \in {"ok", "fail"} : uploadImage(p, d.user, d.files, cloud)
    \/ UploadUpdate(p)
    \/ Ack(p)

Next == \E p \in Procs : Step(p)

Spec == Init /\ [][Next]_vars

\* requests served one at a time: each request runs from its first statement
\* to its response before the next one is taken up
NextSeq == \E p \in {"p1"} : Step(p)

SpecSeq == Init /\ [][NextSeq]_vars

\* the refresh token of the session user 1 opened before the requests
\* followed here: what loginUser issued for the seeded record
SessionToken ==
    createUserAccessTokens(UserWithoutPassword(SeedUser(1, "n1", "e1", "p1", "USER")), 0).refreshToken

\* the service with user 1 already logged in: the record carries the
\* session's refresh token and the client holds it
InitLoggedIn ==
    /\ users = (1 :> [SeedUser(1, "n1", "e1", "p1", "USER") EXCEPT !.refreshToken = SessionToken])
                  @@ (2 :> SeedUser(2, "n2", "e2", "p2", "ADMIN"))
    /\ nextId = 3
    /\ clock = 1
    /\ handed = {SessionToken}
    /\ edits = 0
    /\ pc = [p \in Procs |-> "idle"]
    /\ req = [p \in Procs |-> Null]
    /\ loaded = [p \in Procs |-> Null]
    /\ toks = [p \in Procs |-> Null]
    /\ result = [p \in Procs |-> Null]
    /\ media = {}

SpecLoggedIn == InitLoggedIn /\ [][Next]_vars
(* ================================================================ claims *)
RefreshTokenOf(p) == req[p].refreshtoken

\* the spec's InvalidToken: a refresh-token mismatch
InvalidToken(res) == ~res.ok /\ res.err = "Invalid refresh token"

\* a Refresh request has just been received for tok by p
Refreshing(p, tok) ==
    /\ pc[p] = "idle" /\ pc'[p] # "idle"
    /\ req'[p].op = "refresh" /\ req'[p].refreshtoken = tok

\* C1: Refresh with a correctly signed, unexpired refresh token that is not
\* the one stored on its user's record fails with InvalidToken and leaves the
\* store as it was (so a token superseded by a later Login is refused).
C1_StaleRefreshRejected ==
    [][\A p \in Procs : \A tok \in handed :
          (/\ Refreshing(p, tok)
           /\ JwtVerify(tok)
           /\ tok.claims._id \in DOMAIN users
           /\ users[tok.claims._id].refreshToken # tok)
          => (/\ pc'[p] = "done"
              /\ InvalidToken(result'[p])
              /\ users' = users
              /\ clock' = clock)]_vars

\* Login A, then Login B for user 1, then Refresh with A's token: refused
C1_Witness ==
    \E p \in Procs : \E q \in Procs \ {p} :
        /\ pc[p] = "done" /\ pc[q] = "done"
        /\ req[q].op = "login" /\ result[q].ok
        /\ req[p].op = "refresh" /\ InvalidToken(result[p])
        /\ RefreshTokenOf(p) \in handed /\ JwtVerify(RefreshTokenOf(p))
        /\ RefreshTokenOf(p).claims._id = 1 /\ RefreshTokenOf(p).iat = 1
        /\ result[q].val.refreshToken.iat = 2
        /\ 1 \in DOMAIN users /\ users[1].refreshToken = result[q].val.refreshToken

C3_WrongPasswordRejected ==
    \A p \in Procs :
        pc[p] = "login_update" => BcryptCompare(req[p].password, loaded[p].password)

\* C4: when a successful Login completes, the refresh token on the user's
\* record is the refresh token returned to the caller.
C4_LoginStoresReturned ==
    [][\A p \in Procs :
          (pc[p] = "login_update" /\ pc'[p] = "done" /\ loaded[p]._id \in DOMAIN users)
          => (/\ result'[p].ok
              /\ loaded[p]._id \in DOMAIN users'
              /\ users'[loaded[p]._id].refreshToken = result'[p].val.refreshToken)]_vars

C4_Witness ==
    \E p \in Procs :
        /\ pc[p] = "done" /\ req[p].op = "login" /\ result[p].ok
        /\ 1 \in DOMAIN users
        /\ users[1].refreshToken = result[p].val.refreshToken
        /\ result[p].val.refreshToken.kind = "refresh"

\* the refresh tokens issued so far for user id: returned ones and in-flight ones
IssuedFor(id) ==
    {t \in handed \cup {toks[q].refreshToken : q \in {r \in Procs : toks[r] # Null}} :
        t.claims._id = id}

\* C5: a Logout leaves the user's stored refresh token null, and a Refresh
\* that follows it with any refresh token issued before the Logout fails with
\* InvalidToken.
C5_LogoutRevokes ==
    [][\A p \in Procs :
          (pc[p] = "idle" /\ pc'[p] = "done" /\ req'[p].op = "logout"
              /\ req'[p]._id \in DOMAIN users)
          => (/\ req'[p]._id \in DOMAIN users'
              /\ users'[req'[p]._id].refreshToken = Null
              /\ \A t \in IssuedFor(req'[p]._id) :
                    RefreshCheck(users', t) = "Invalid refresh token")]_vars

\* user 1 logged in, logged out, and the Refresh with the login's token failed
C5_Witness ==
    \E p \in Procs : \E q \in Procs \ {p} :
        /\ pc[q] = "done" /\ req[q].op = "logout" /\ req[q]._id = 1
        /\ pc[p] = "done" /\ req[p].op = "refresh" /\ InvalidToken(result[p])
        /\ RefreshTokenOf(p) \in handed /\ RefreshTokenOf(p).claims._id = 1
        /\ handed = {RefreshTokenOf(p)}
        /\ 1 \in DOMAIN users /\ users[1].refreshToken = Null
\* C6: of two Logins for the same user that interleave at the store calls,
\* the one that writes last decides the stored refresh token: once both have
\* completed, the stored token is the last writer's, Refresh accepts it, and
\* Refresh refuses the other Login's token.
C6_LastLoginWins ==
    [][\A p \in Procs : \A q \in Procs \ {p} :
          (/\ pc[p] = "login_update" /\ pc'[p] = "done"
           /\ pc[q] = "done" /\ req[q].op = "login" /\ result[q].ok
           /\ result[q].val.refreshToken.claims._id = loaded[p]._id)
          => LET id == loaded[p]._id
                 mine == result'[p].val.refreshToken
                 other == result[q].val.refreshToken
             IN /\ id \in DOMAIN users'
                /\ users'[id].refreshToken = mine
                /\ RefreshCheck(users', mine) = "ok"
                /\ RefreshCheck(users', other) = "Invalid refresh token"]_vars

\* both Logins read user 1 before either wrote (each issued its claims from
\* the same record, which the first write changes), and both have completed
C6_Witness ==
    \E p \in Procs : \E q \in Procs \ {p} :
        /\ pc[p] = "done" /\ req[p].op = "login" /\ result[p].ok
        /\ pc[q] = "done" /\ req[q].op = "login" /\ result[q].ok
        /\ result[p].val.refreshToken.iat = 1 /\ result[q].val.refreshToken.iat = 2
        /\ result[p].val.refreshToken.claims._id = 1
        /\ result[q].val.refreshToken.claims._id = 1
        /\ edits = 0
        /\ users[1].refreshToken = result[p].val.refreshToken
        /\ RefreshCheck(users, result[q].val.refreshToken) = "Invalid refresh token"

\* a Login or Refresh is writing its refresh token and returning
SessionWrite(p) == pc[p] \in {"login_update", "refresh_update"} /\ pc'[p] = "done"

Exposed(v) ==
    (DOMAIN v \cap {"password", "refreshToken"})
    \cup (IF "_doc" \in DOMAIN v THEN DOMAIN v["_doc"] \cap {"password", "refreshToken"} ELSE {})

OutsideOps == {"createUser", "updateUser", "editUser", "getUserById", "getMe", "uploadImage"}

\* C8: whatever createUser, updateUser, editUser, getUserById, getAllUser,
\* getMe and uploadImage return carries neither the hashed secret nor the
\* refresh token.
C8_NoSecretReturned ==
    \A p \in Procs :
        (pc[p] = "done" /\ result[p].ok)
        => /\ req[p].op \in OutsideOps => Exposed(result[p].val) = {}
           /\ req[p].op = "getAllUser" => \A doc \in result[p].val : Exposed(doc) = {}

\* C9: the claim set a Login or Refresh hands to the token issuer is the
\* loaded user record without its hashed secret and stored refresh token, so
\* no token issued carries either.
C9_ClaimsOmitSecrets ==
    /\ \A p \in Procs :
          pc[p] \in {"login_update", "refresh_update"}
          => \A t \in {toks[p].accessToken, toks[p].refreshToken} :
                /\ DOMAIN t.claims = DOMAIN loaded[p] \ {"password", "refreshToken"}
                /\ \A k \in DOMAIN t.claims : t.claims[k] = loaded[p][k]
    /\ \A t \in handed : DOMAIN t.claims \cap {"password", "refreshToken"} = {}
    /\ \A p \in Procs :
          (pc[p] = "done" /\ req[p].op \in {"login", "refresh"} /\ result[p].ok)
          => \A t \in {result[p].val.accessToken, result[p].val.refreshToken} :
                DOMAIN t.claims \cap {"password", "refreshToken"} = {}

\* a Refresh is in flight for a user whose record holds both secrets
C9_Witness ==
    \E p \in Procs :
        /\ pc[p] = "refresh_update"
        /\ loaded[p].refreshToken # Null /\ loaded[p].password.alg = "bcrypt"
        /\ toks[p].accessToken.claims.email = loaded[p].email

\* C10: a Logout of a user whose stored refresh token is already null leaves
\* the whole store as it was, and a second Logout after a Logout changes
\* nothing more.
C10_LogoutIdempotent ==
    [][\A p \in Procs :
          (pc[p] = "idle" /\ pc'[p] = "done" /\ req'[p].op = "logout")
          => LET id == req'[p]._id
             IN /\ (id \in DOMAIN users /\ users[id].refreshToken = Null)
                      => (users' = users /\ nextId' = nextId)
                /\ FindByIdAndUpdate(users', id, [refreshToken |-> Null]) = users'
                /\ \A q \in Procs \ {p} :
                      (pc[q] = "done" /\ req[q].op = "logout" /\ req[q]._id = id
                          /\ id \in DOMAIN users /\ users[id].refreshToken = Null)
                      => users' = users]_vars

\* user 1 logged in and was then logged out twice
C10_Witness ==
    \E p \in Procs : \E q \in Procs \ {p} :
        /\ pc[p] = "done" /\ req[p].op = "logout" /\ req[p]._id = 1
        /\ pc[q] = "done" /\ req[q].op = "logout" /\ req[q]._id = 1
        /\ Cardinality(handed) = 1
        /\ 1 \in DOMAIN users /\ users[1].refreshToken = Null

\* C11: a Login whose email matches no stored user fails with "User not
\* found", issues no tokens, and leaves every user record unchanged.
C11_UnknownEmailNotFound ==
    [][\A p \in Procs :
          (/\ pc[p] = "idle" /\ pc'[p] # "idle" /\ req'[p].op = "login"
           /\ \A id \in DOMAIN users : users[id].email # req'[p].email)
          => (/\ pc'[p] = "done"
              /\ result'[p] = Err("User not found")
              /\ toks'[p] = Null
              /\ clock' = clock
              /\ handed' = handed
              /\ users' = users)]_vars

\* a Login for "e3", an email no record carries, has ended in "User not found"
C11_Witness ==
    \E p \in Procs :
        /\ pc[p] = "done" /\ req[p].op = "login" /\ req[p].email = "e3"
        /\ \A id \in DOMAIN users : users[id].email # "e3"
        /\ result[p] = Err("User not found")
        /\ handed = {} /\ clock = 1

\* C12: when the user exists, editUser returns the record as it is after the
\* edit has been applied (less the hashed secret and the refresh token):
\* every edited field of the returned document carries the edited value.
C12_EditReturnsUpdated ==
    \A p \in Procs :
        (pc[p] = "done" /\ req[p].op = "editUser" /\ result[p].ok /\ result[p].val # Null)
        => \A k \in DOMAIN req[p].data \ {"password", "refreshToken"} :
              result[p].val[k] = req[p].data[k]

\* C13: a refresh token value is redeemed at most once: of two Refresh
\* requests that present the same stored token and interleave at the store
\* calls, at most one succeeds and returns a new token pair.
C13_RedeemedOnce ==
    \A p \in Procs : \A q \in Procs \ {p} :
        (/\ pc[p] = "done" /\ req[p].op = "refresh"
         /\ pc[q] = "done" /\ req[q].op = "refresh"
         /\ RefreshTokenOf(p) = RefreshTokenOf(q))
        => ~(result[p].ok /\ result[q].ok)

\* C14: once a Logout for a user has completed, the user's stored refresh
\* token stays null even when a Refresh for that user which loaded the
\* record before the Logout completes afterwards: the write of an in-flight
\* Refresh leaves the nulled token null.
C14_LogoutStaysNull ==
    [][\A p \in Procs : \A q \in Procs \ {p} :
          (/\ pc[q] = "done" /\ req[q].op = "logout"
           /\ req[q]._id \in DOMAIN users
           /\ users[req[q]._id].refreshToken = Null
           /\ pc[p] = "refresh_update" /\ pc'[p] = "done")
          => (/\ req[q]._id \in DOMAIN users'
              /\ users'[req[q]._id].refreshToken = Null)]_vars

\* C15: createUser, updateUser, editUser and uploadImage never touch the
\* stored refresh token: a record they create carries none, and every record
\* they leave in the store carries the refresh token it carried before.
C15_ProfileOpsKeepToken ==
    [][\A p \in Procs :
          (\/ /\ pc[p] = "idle" /\ pc'[p] = "done"
              /\ req'[p].op \in {"createUser", "updateUser", "editUser"}
           \/ pc[p] = "upload_update" /\ pc'[p] = "done")
          => \A id \in DOMAIN users' :
                users'[id].refreshToken =
                    IF id \in DOMAIN users THEN users[id].refreshToken ELSE Null]_vars

\* a Refresh of p completes in this step, presenting a validly signed token
\* whose _id claim names no record of the store
RefreshForMissingUser(p) ==
    /\ pc[p] # "done" /\ pc'[p] = "done" /\ req'[p].op = "refresh"
    /\ JwtVerify(req'[p].refreshtoken)
    /\ "_id" \in DOMAIN req'[p].refreshtoken.claims
    /\ req'[p].refreshtoken.claims._id \notin DOMAIN users

\* C16 as stated: a Refresh with a validly signed token naming a user that no
\* longer exists fails with "User not found", returns no tokens and changes
\* no record, also when the deletion lands between its load and its write.
C16_DeletedUserRefreshFails ==
    [][\A p \in Procs :
          RefreshForMissingUser(p)
          => (result'[p] = Err("User not found") /\ users' = users)]_vars

\* C16 amended: a Refresh with a validly signed token naming a user that is
\* absent when the record is loaded fails with "User not found" and issues
\* nothing; a Refresh whose user is deleted after the load returns the token
\* pair it issued; in both cases no record is created or changed.
C16_Amended ==
    [][\A p \in Procs :
          RefreshForMissingUser(p)
          => (/\ users' = users
              /\ pc[p] = "idle"
                    => (result'[p] = Err("User not found") /\ clock' = clock /\ handed' = handed)
              /\ pc[p] = "refresh_update" => result'[p] = Ok(toks[p]))]_vars

\* user 1 was deleted while a Refresh that had loaded its record was still
\* to write the rotated token
C16_Witness ==
    \E p \in Procs : \E q \in Procs \ {p} :
        /\ pc[p] = "refresh_update" /\ loaded[p]._id = 1
        /\ RefreshTokenOf(p) \in handed
        /\ pc[q] = "done" /\ req[q].op = "deleteUser" /\ req[q]._id = 1
        /\ result[q].val.deletedCount = 1
        /\ 1 \notin DOMAIN users

\* C17: uploadImage fails with 401 when no user is given and with 400 when no
\* file is given, in both cases before anything is sent to the media host or
\* written to the store; a failed upload leaves the store unchanged; and the
\* only record change an uploadImage makes is setting the user's imageUrl to
\* a url the media host has already handed back.
C17_UploadGuardsAndOrder ==
    [][\A p \in Procs :
          /\ (pc[p] = "idle" /\ pc'[p] # "idle" /\ req'[p].op = "uploadImage")
             => (/\ users' = users
                 /\ req'[p].user = Null
                       => (/\ pc'[p] = "done" /\ result'[p] = Err("401 unauthorised")
                           /\ media' = media)
                 /\ (req'[p].user # Null /\ req'[p].files = Null)
                       => (/\ pc'[p] = "done" /\ result'[p] = Err("400 No file uploaded")
                           /\ media' = media)
                 /\ pc'[p] = "done" => (~result'[p].ok /\ media' = media)
                 /\ pc'[p] # "done" => media' # {})
          /\ (pc[p] = "upload_update" /\ pc'[p] = "done")
             => (/\ loaded[p].mediaUrl \in media
                 /\ DOMAIN users' = DOMAIN users
                 /\ \A id \in DOMAIN users :
                       users'[id] = IF id = req[p].user._id
                                    THEN [users[id] EXCEPT !.imageUrl = loaded[p].mediaUrl]
                                    ELSE users[id])]_vars

\* one uploadImage without a user has been refused with 401, and another has
\* uploaded its file and stored the url on user 1
C17_Witness ==
    \E p \in Procs : \E q \in Procs \ {p} :
        /\ pc[p] = "done" /\ req[p].op = "uploadImage" /\ req[p].user = Null
        /\ result[p] = Err("401 unauthorised")
        /\ pc[q] = "done" /\ req[q].op = "uploadImage" /\ result[q].ok
        /\ 1 \in DOMAIN users
        /\ users[1].imageUrl \in media
====
